---- MODULE Spec2Model ----
(***************************************************************************)
(* Model of the artisan_runner supervisor: main() of src/src/main.rs and   *)
(* create_child / run_one_shot_process of src/src/child.rs.                *)
(* The program counter pc follows main() from one await / decision point   *)
(* to the next; the worker process, the two signal listeners and the       *)
(* filesystem watcher are the environment.                                 *)
(***************************************************************************)
EXTENDS Integers, Sequences, FiniteSets, TLC

\* ---------------------------------------------------------------- bounds
MaxThreshold == 2
MaxEventCounter == 2
MaxPrevCounter == 1

\* ------------------------------------------------------ program constants
ExitOk == 0
ExitFatal == 100
ErrorLogCap == 3

NoExit == -1
NoState == [none |-> TRUE]

\* values settings.changes_needed (an unvalidated i32) is drawn from
Thresholds == (-1)..MaxThreshold

\* process ids the OS hands out to spawned workers: one and two digits
Pids == {9, 10}

\* the pid of the next spawned process: the kernel hands out process ids
\* in increasing order and wraps around, so a respawned worker never has
\* the pid of the worker it replaces
next_pid(p) ==
    IF p + 1 \in Pids THEN p + 1
    ELSE CHOOSE q \in Pids : \A r \in Pids : q <= r

\* content of the pid file when it does not exist
NoPidFile == <<>>

\* pid.to_string(): the decimal digits of the pid
RECURSIVE to_string(_)
to_string(n) ==
    IF n < 10 THEN <<n>> ELSE Append(to_string(n \div 10), n % 10)

VARIABLES
    pc,             \* position of main()
    ret,            \* call site create_child returns to
    exit_code,      \* NoExit while running, else the process exit status
    settings,       \* AppSpecificConfig loaded at startup
    trigger_count,  \* main.rs:147
    change_count,   \* main.rs:146
    reload,         \* AtomicBool set by the SIGHUP listener
    exit_graceful,  \* AtomicBool set by the SIGUSR listener
    child,          \* process behind the current SupervisedChild handle
    orphans,        \* workers still alive whose handle was replaced
    state,          \* AppState in memory
    disk,           \* AppState record in the state file, or NoState
    ops,            \* history: operations performed since the last wait
    killCalled,     \* history: kill() was called on the current handle
    hupAfterPoll,   \* history: SIGHUP delivered since the last poll/clear
    evSinceReset,   \* history: events received since the last reset
    usrAfterPoll,   \* history: SIGUSR delivered since the last poll
    counterAtWait,  \* history: event counter when the loop last waited
    cfg_source,     \* changes_needed as the Config file currently gives it
    child_pid,      \* process id of the current child, 0 before the first spawn
    pid_file,       \* text in the pid sidecar file
    hupPending      \* history: SIGHUP delivered and no reload begun since

vars == <<pc, ret, exit_code, settings, trigger_count, change_count, reload,
          exit_graceful, child, orphans, state, disk, ops, killCalled,
          hupAfterPoll, evSinceReset, usrAfterPoll, counterAtWait,
          cfg_source, child_pid, pid_file, hupPending>>

\* ------------------------------------------------------------- AppState
RECURSIVE Dedup(_)
Dedup(s) ==
    IF s = <<>> THEN <<>>
    ELSE LET r == Dedup(SubSeq(s, 1, Len(s) - 1))
             x == s[Len(s)]
         IN IF \E i \in 1..Len(r) : r[i] = x THEN r ELSE Append(r, x)

\* bounded error log: on overflow drop the oldest entry, then dedup
PushError(log, e) ==
    LET l == Append(log, e)
    IN IF Len(l) > ErrorLogCap THEN Dedup(Tail(l)) ELSE l

\* log_error(&mut state, error, &state_path): record the error
log_error(s, e) == [s EXCEPT !.error_log = PushError(@, e)]

\* wind_down_state(&mut state, &state_path): mark the state wound down
wind_down_state(s) == [s EXCEPT !.is_active = FALSE, !.data = "Terminated"]

\* state after the load-or-bootstrap block of startup (main.rs:55-91)
StartupLoaded(rec) ==
    [rec EXCEPT !.is_active = FALSE, !.data = "Initializing",
                !.error_log = <<>>]

FreshState ==
    [is_active |-> FALSE, data |-> "Initializing", event_counter |-> 0,
     error_log |-> <<>>]

\* state after the Ok arm of the reload block (main.rs:229-240)
ReloadLoaded(rec) ==
    [rec EXCEPT !.is_active = TRUE, !.data = "Reloading",
                !.error_log = <<>>]

PrevStates ==
    {NoState} \cup
    {[is_active |-> TRUE, data |-> "Nominal", event_counter |-> c,
      error_log |-> <<>>] : c \in 0..MaxPrevCounter}

\* ----------------------------------------------------------------- exits
Exit(code) == /\ pc' = "exited"
              /\ exit_code' = code

Op(o) == ops' = Append(ops, o)

Running == pc # "exited"

\* the signal listeners are installed at main.rs:97-98
WatchersInstalled ==
    pc \notin {"get_config", "specific_config", "load_state", "exited"}

NumAlive == orphans + (IF child = "alive" THEN 1 ELSE 0)

\* ------------------------------------------------------------------ Init
Init ==
    /\ pc = "get_config"
    /\ ret = "startup"
    /\ exit_code = NoExit
    /\ settings = [changes_needed |-> 0]
    /\ trigger_count = 0
    /\ change_count = 0
    /\ reload = FALSE
    /\ exit_graceful = FALSE
    /\ child = "none"
    /\ orphans = 0
    /\ state = FreshState
    /\ disk \in PrevStates
    /\ ops = <<>>
    /\ killCalled = FALSE
    /\ hupAfterPoll = FALSE
    /\ hupPending = FALSE
    /\ evSinceReset = 0
    /\ usrAfterPoll = FALSE
    /\ counterAtWait = 0
    /\ cfg_source \in Thresholds
    /\ child_pid = 0
    /\ pid_file \in {NoPidFile} \cup {to_string(p) : p \in Pids}

\* --------------------------------------------------------------- startup
GetConfigOk ==
    /\ pc = "get_config"
    /\ pc' = "specific_config"
    /\ UNCHANGED <<ret, exit_code, settings, trigger_count, change_count,
                   reload, exit_graceful, child, orphans, state, disk, ops,
                   killCalled, hupAfterPoll, evSinceReset, usrAfterPoll,
                   counterAtWait, cfg_source, child_pid, pid_file,
                   hupPending>>

GetConfigFail ==
    /\ pc = "get_config"
    /\ Exit(ExitFatal)
    /\ Op("config_fail")
    /\ UNCHANGED <<ret, settings, trigger_count, change_count, reload,
                   exit_graceful, child, orphans, state, disk, killCalled,
                   hupAfterPoll, evSinceReset, usrAfterPoll, counterAtWait,
                   cfg_source, child_pid, pid_file, hupPending>>

SpecificConfigOk ==
    /\ pc = "specific_config"
    /\ settings' = [changes_needed |-> cfg_source]
    /\ pc' = "load_state"
    /\ UNCHANGED <<ret, exit_code, trigger_count, change_count, reload,
                   exit_graceful, child, orphans, state, disk, ops,
                   killCalled, hupAfterPoll, evSinceReset, usrAfterPoll,
                   counterAtWait, cfg_source, child_pid, pid_file,
                   hupPending>>

SpecificConfigFail ==
    /\ pc = "specific_config"
    /\ Exit(ExitOk)
    /\ Op("settings_fail")
    /\ UNCHANGED <<ret, settings, trigger_count, change_count, reload,
                   exit_graceful, child, orphans, state, disk, killCalled,
                   hupAfterPoll, evSinceReset, usrAfterPoll, counterAtWait,
                   cfg_source, child_pid, pid_file, hupPending>>

LoadStateOk ==
    /\ pc = "load_state"
    /\ disk # NoState
    /\ state' = StartupLoaded(disk)
    /\ disk' = state'
    /\ pc' = "set_active"
    /\ UNCHANGED <<ret, exit_code, settings, trigger_count, change_count,
                   reload, exit_graceful, child, orphans, ops, killCalled,
                   hupAfterPoll, evSinceReset, usrAfterPoll, counterAtWait,
                   cfg_source, child_pid, pid_file, hupPending>>

LoadStateErr ==
    /\ pc = "load_state"
    /\ state' = FreshState
    /\ disk' = state'
    /\ pc' = "set_active"
    /\ UNCHANGED <<ret, exit_code, settings, trigger_count, change_count,
                   reload, exit_graceful, child, orphans, ops, killCalled,
                   hupAfterPoll, evSinceReset, usrAfterPoll, counterAtWait,
                   cfg_source, child_pid, pid_file, hupPending>>

SetActive ==
    /\ pc = "set_active"
    /\ state' = [state EXCEPT !.is_active = TRUE]
    /\ disk' = state'
    /\ pc' = "log_path"
    /\ UNCHANGED <<ret, exit_code, settings, trigger_count, change_count,
                   reload, exit_graceful, child, orphans, ops, killCalled,
                   hupAfterPoll, evSinceReset, usrAfterPoll, counterAtWait,
                   cfg_source, child_pid, pid_file, hupPending>>

\* settings.safe_path() at main.rs:114
LogPathOk ==
    /\ pc = "log_path"
    /\ pc' = "startup_build"
    /\ UNCHANGED <<ret, exit_code, settings, trigger_count, change_count,
                   reload, exit_graceful, child, orphans, state, disk, ops,
                   killCalled, hupAfterPoll, evSinceReset, usrAfterPoll,
                   counterAtWait, cfg_source, child_pid, pid_file,
                   hupPending>>

LogPathMissing ==
    /\ pc = "log_path"
    /\ Exit(ExitOk)
    /\ Op("path_missing")
    /\ UNCHANGED <<ret, settings, trigger_count, change_count, reload,
                   exit_graceful, child, orphans, state, disk, killCalled,
                   hupAfterPoll, evSinceReset, usrAfterPoll, counterAtWait,
                   cfg_source, child_pid, pid_file, hupPending>>

StartupBuildOk ==
    /\ pc = "startup_build"
    /\ Op("build_ok")
    /\ ret' = "startup"
    /\ pc' = "cc_spawn"
    /\ UNCHANGED <<exit_code, settings, trigger_count, change_count, reload,
                   exit_graceful, child, orphans, state, disk, killCalled,
                   hupAfterPoll, evSinceReset, usrAfterPoll, counterAtWait,
                   cfg_source, child_pid, pid_file, hupPending>>

\* `return` from main: the process ends with status 0
StartupBuildFail ==
    /\ pc = "startup_build"
    /\ Op("build_fail")
    /\ state' = log_error(state, "build")
    /\ disk' = state'
    /\ Exit(ExitOk)
    /\ UNCHANGED <<ret, settings, trigger_count, change_count, reload,
                   exit_graceful, child, orphans, killCalled, hupAfterPoll,
                   evSinceReset, usrAfterPoll, counterAtWait, cfg_source,
                   child_pid, pid_file, hupPending>>

\* ---------------------------------------------------------- create_child
RetPc(r) ==
    CASE r = "startup" -> "startup_running"
      [] r = "change"  -> "ev_reset"
      [] r = "health"  -> "hc_nominal"
      [] r = "reload"  -> "rl_clear"

CreateChildSpawnOk ==
    /\ pc = "cc_spawn"
    /\ Op("spawn_ok")
    /\ orphans' = IF child = "alive" THEN orphans + 1 ELSE orphans
    /\ child' = "alive"
    /\ killCalled' = FALSE
    /\ pc' = "cc_pid"
    /\ child_pid' = next_pid(child_pid)
    /\ UNCHANGED <<ret, exit_code, settings, trigger_count, change_count,
                   reload, exit_graceful, state, disk, hupAfterPoll,
                   evSinceReset, usrAfterPoll, counterAtWait, cfg_source, pid_file,
                   hupPending>>

CreateChildSpawnFail ==
    /\ pc = "cc_spawn"
    /\ Op("spawn_fail")
    /\ state' = wind_down_state(log_error(state, "spawn"))
    /\ disk' = state'
    /\ Exit(ExitFatal)
    /\ UNCHANGED <<ret, settings, trigger_count, change_count, reload,
                   exit_graceful, child, orphans, killCalled, hupAfterPoll,
                   evSinceReset, usrAfterPoll, counterAtWait, cfg_source,
                   child_pid, pid_file, hupPending>>

CreateChildPidOk ==
    /\ pc = "cc_pid"
    /\ pc' = "cc_write"
    /\ UNCHANGED <<ret, exit_code, settings, trigger_count, change_count,
                   reload, exit_graceful, child, orphans, state, disk, ops,
                   killCalled, hupAfterPoll, evSinceReset, usrAfterPoll,
                   counterAtWait, cfg_source, child_pid, pid_file,
                   hupPending>>

CreateChildPidFail ==
    /\ pc = "cc_pid"
    /\ Op("pid_fail")
    /\ state' = wind_down_state(log_error(state, "pid"))
    /\ disk' = state'
    /\ Exit(ExitFatal)
    /\ UNCHANGED <<ret, settings, trigger_count, change_count, reload,
                   exit_graceful, child, orphans, killCalled, hupAfterPoll,
                   evSinceReset, usrAfterPoll, counterAtWait, cfg_source,
                   child_pid, pid_file, hupPending>>

CreateChildWriteOk ==
    /\ pc = "cc_write"
    /\ pc' = "cc_metrics"
    /\ pid_file' = to_string(child_pid)
    /\ UNCHANGED <<ret, exit_code, settings, trigger_count, change_count,
                   reload, exit_graceful, child, orphans, state, disk, ops,
                   killCalled, hupAfterPoll, evSinceReset, usrAfterPoll,
                   counterAtWait, cfg_source, child_pid, hupPending>>

\* variant: a failed write of the pid file is ignored
CreateChildWriteFail_Ignore ==
    /\ pc = "cc_write"
    /\ Op("pidfile_fail")
    /\ pc' = "cc_metrics"
    /\ UNCHANGED <<ret, exit_code, settings, trigger_count, change_count,
                   reload, exit_graceful, child, orphans, state, disk,
                   killCalled, hupAfterPoll, evSinceReset, usrAfterPoll,
                   counterAtWait, cfg_source, child_pid, pid_file,
                   hupPending>>

\* fs::write failed; with no inner error the process exits without logging
CreateChildWriteFail ==
    /\ pc = "cc_write"
    /\ Op("pidfile_fail")
    /\ \/ UNCHANGED <<state, disk>>
       \/ /\ state' = wind_down_state(log_error(state, "pidfile"))
          /\ disk' = state'
    /\ Exit(ExitFatal)
    /\ UNCHANGED <<ret, settings, trigger_count, change_count, reload,
                   exit_graceful, child, orphans, killCalled, hupAfterPoll,
                   evSinceReset, usrAfterPoll, counterAtWait, cfg_source,
                   child_pid, pid_file, hupPending>>

\* get_metrics Ok: update_state saves; Err: nothing is saved
CreateChildReturn ==
    /\ pc = "cc_metrics"
    /\ \/ disk' = state
       \/ UNCHANGED disk
    /\ pc' = RetPc(ret)
    /\ UNCHANGED <<ret, exit_code, settings, trigger_count, change_count,
                   reload, exit_graceful, child, orphans, state, ops,
                   killCalled, hupAfterPoll, evSinceReset, usrAfterPoll,
                   counterAtWait, cfg_source, child_pid, pid_file,
                   hupPending>>

StartupRunning ==
    /\ pc = "startup_running"
    /\ child = "alive"
    /\ state' = [state EXCEPT !.data = "Child spawned"]
    /\ disk' = state'
    /\ pc' = "monitor"
    /\ UNCHANGED <<ret, exit_code, settings, trigger_count, change_count,
                   reload, exit_graceful, child, orphans, ops, killCalled,
                   hupAfterPoll, evSinceReset, usrAfterPoll, counterAtWait,
                   cfg_source, child_pid, pid_file, hupPending>>

StartupNotRunning ==
    /\ pc = "startup_running"
    /\ child # "alive"
    /\ Op("not_spawned")
    /\ state' = log_error(state, "child not spawned")
    /\ disk' = state'
    /\ Exit(ExitFatal)
    /\ UNCHANGED <<ret, settings, trigger_count, change_count, reload,
                   exit_graceful, child, orphans, killCalled, hupAfterPoll,
                   evSinceReset, usrAfterPoll, counterAtWait, cfg_source,
                   child_pid, pid_file, hupPending>>

\* main.rs:146-161; safe_path() is evaluated for the call
MonitorOk ==
    /\ pc = "monitor"
    /\ change_count' = 0
    /\ trigger_count' = settings.changes_needed
    /\ ops' = <<>>
    /\ pc' = "select"
    /\ counterAtWait' = state.event_counter
    /\ UNCHANGED <<ret, exit_code, settings, reload, exit_graceful, child,
                   orphans, state, disk, killCalled, hupAfterPoll,
                   evSinceReset, usrAfterPoll, cfg_source, child_pid,
                   pid_file, hupPending>>

MonitorPathMissing ==
    /\ pc = "monitor"
    /\ change_count' = 0
    /\ trigger_count' = settings.changes_needed
    /\ Op("path_missing")
    /\ Exit(ExitOk)
    /\ UNCHANGED <<ret, settings, reload, exit_graceful, child, orphans,
                   state, disk, killCalled, hupAfterPoll, evSinceReset,
                   usrAfterPoll, counterAtWait, cfg_source, child_pid,
                   pid_file, hupPending>>

MonitorErr ==
    /\ pc = "monitor"
    /\ change_count' = 0
    /\ trigger_count' = settings.changes_needed
    /\ Op("watcher_fail")
    /\ state' = wind_down_state(state)
    /\ disk' = state'
    /\ Exit(ExitOk)
    /\ UNCHANGED <<ret, settings, reload, exit_graceful, child, orphans,
                   killCalled, hupAfterPoll, evSinceReset, usrAfterPoll,
                   counterAtWait, cfg_source, child_pid, pid_file,
                   hupPending>>

\* ------------------------------------------------- loop: change events
\* Some(event) = event_rx.recv(): change_count += 1
SelectEvent ==
    /\ pc = "select"
    /\ state.event_counter < MaxEventCounter
    /\ change_count' = change_count + 1
    /\ evSinceReset' = evSinceReset + 1
    /\ ops' = <<"event">>
    /\ pc' = "ev_check"
    /\ UNCHANGED <<ret, exit_code, settings, trigger_count, reload,
                   exit_graceful, child, orphans, state, disk, killCalled,
                   hupAfterPoll, usrAfterPoll, counterAtWait, cfg_source,
                   child_pid, pid_file, hupPending>>

\* variant: the comparison is strict
ThresholdReached_Strict == change_count > trigger_count

\* if change_count >= trigger_count (main.rs:173)
ThresholdReached == change_count >= trigger_count

\* threshold reached: count the restart and save
EvThreshold ==
    /\ pc = "ev_check"
    /\ ThresholdReached
    /\ state' = [state EXCEPT !.event_counter = @ + 1]
    /\ disk' = state'
    /\ Op("threshold")
    /\ pc' = "ev_kill"
    /\ UNCHANGED <<ret, exit_code, settings, trigger_count, change_count,
                   reload, exit_graceful, child, orphans, killCalled,
                   hupAfterPoll, evSinceReset, usrAfterPoll, counterAtWait,
                   cfg_source, child_pid, pid_file, hupPending>>

EvBelow ==
    /\ pc = "ev_check"
    /\ ~ThresholdReached
    /\ pc' = "poll_reload"
    /\ UNCHANGED <<ret, exit_code, settings, trigger_count, change_count,
                   reload, exit_graceful, child, orphans, state, disk, ops,
                   killCalled, hupAfterPoll, evSinceReset, usrAfterPoll,
                   counterAtWait, cfg_source, child_pid, pid_file,
                   hupPending>>

\* kill() returned Ok: the new child is created in the Ok arm
EvKillOk ==
    /\ pc = "ev_kill"
    /\ child' = "dead"
    /\ killCalled' = TRUE
    /\ Op("kill_ok")
    /\ ret' = "change"
    /\ pc' = "cc_spawn"
    /\ UNCHANGED <<exit_code, settings, trigger_count, change_count, reload,
                   exit_graceful, orphans, state, disk, hupAfterPoll,
                   evSinceReset, usrAfterPoll, counterAtWait, cfg_source,
                   child_pid, pid_file, hupPending>>

\* variant: the new child is created although kill() returned Err
EvKillFail_Respawn ==
    /\ pc = "ev_kill"
    /\ killCalled' = TRUE
    /\ Op("kill_fail")
    /\ state' = log_error(state, "kill")
    /\ disk' = state'
    /\ ret' = "change"
    /\ pc' = "cc_spawn"
    /\ UNCHANGED <<exit_code, settings, trigger_count, change_count, reload,
                   exit_graceful, child, orphans, hupAfterPoll, evSinceReset,
                   usrAfterPoll, counterAtWait, cfg_source, child_pid,
                   pid_file, hupPending>>

\* variant: a kill failure on the change path is fatal as in reload
EvKillFail_Exit ==
    /\ pc = "ev_kill"
    /\ killCalled' = TRUE
    /\ Op("kill_fail")
    /\ state' = wind_down_state(log_error(state, "kill"))
    /\ disk' = state'
    /\ Exit(ExitFatal)
    /\ UNCHANGED <<ret, settings, trigger_count, change_count, reload,
                   exit_graceful, child, orphans, hupAfterPoll, evSinceReset,
                   usrAfterPoll, counterAtWait, cfg_source, child_pid,
                   pid_file, hupPending>>

\* kill() returned Err: the error is logged, nothing is spawned
EvKillFail ==
    /\ pc = "ev_kill"
    /\ killCalled' = TRUE
    /\ Op("kill_fail")
    /\ state' = log_error(state, "kill")
    /\ disk' = state'
    /\ pc' = "ev_reset"
    /\ UNCHANGED <<ret, exit_code, settings, trigger_count, change_count,
                   reload, exit_graceful, child, orphans, hupAfterPoll,
                   evSinceReset, usrAfterPoll, counterAtWait, cfg_source,
                   child_pid, pid_file, hupPending>>

\* variant: the counter is not reset after the restart
EvReset_Keep ==
    /\ pc = "ev_reset"
    /\ pc' = "poll_reload"
    /\ UNCHANGED <<ret, exit_code, settings, trigger_count, change_count,
                   reload, exit_graceful, child, orphans, state, disk, ops,
                   killCalled, hupAfterPoll, evSinceReset, usrAfterPoll,
                   counterAtWait, cfg_source, child_pid, pid_file,
                   hupPending>>

\* change_count = 0; // Reset count
EvReset ==
    /\ pc = "ev_reset"
    /\ change_count' = 0
    /\ evSinceReset' = 0
    /\ pc' = "poll_reload"
    /\ UNCHANGED <<ret, exit_code, settings, trigger_count, reload,
                   exit_graceful, child, orphans, state, disk, ops,
                   killCalled, hupAfterPoll, usrAfterPoll, counterAtWait,
                   cfg_source, child_pid, pid_file, hupPending>>

\* --------------------------------------------------- loop: health check
HealthRunning ==
    /\ pc = "select"
    /\ child = "alive"
    /\ ops' = <<"timer">>
    /\ pc' = "hc_nominal"
    /\ UNCHANGED <<ret, exit_code, settings, trigger_count, change_count,
                   reload, exit_graceful, child, orphans, state, disk,
                   killCalled, hupAfterPoll, evSinceReset, usrAfterPoll,
                   counterAtWait, cfg_source, child_pid, pid_file,
                   hupPending>>

HealthNotRunning ==
    /\ pc = "select"
    /\ child # "alive"
    /\ ops' = <<"timer">>
    /\ pc' = "hc_build"
    /\ UNCHANGED <<ret, exit_code, settings, trigger_count, change_count,
                   reload, exit_graceful, child, orphans, state, disk,
                   killCalled, hupAfterPoll, evSinceReset, usrAfterPoll,
                   counterAtWait, cfg_source, child_pid, pid_file,
                   hupPending>>

HcBuildOk ==
    /\ pc = "hc_build"
    /\ Op("build_ok")
    /\ ret' = "health"
    /\ pc' = "cc_spawn"
    /\ UNCHANGED <<exit_code, settings, trigger_count, change_count, reload,
                   exit_graceful, child, orphans, state, disk, killCalled,
                   hupAfterPoll, evSinceReset, usrAfterPoll, counterAtWait,
                   cfg_source, child_pid, pid_file, hupPending>>

\* variant: the failed build is logged and the spawn goes ahead
HcBuildFail_Continue ==
    /\ pc = "hc_build"
    /\ Op("build_fail")
    /\ state' = log_error(state, "build")
    /\ disk' = state'
    /\ ret' = "health"
    /\ pc' = "cc_spawn"
    /\ UNCHANGED <<exit_code, settings, trigger_count, change_count, reload,
                   exit_graceful, child, orphans, killCalled, hupAfterPoll,
                   evSinceReset, usrAfterPoll, counterAtWait, cfg_source,
                   child_pid, pid_file, hupPending>>

HcBuildFail ==
    /\ pc = "hc_build"
    /\ Op("build_fail")
    /\ state' = log_error(state, "build")
    /\ disk' = state'
    /\ Exit(ExitOk)
    /\ UNCHANGED <<ret, settings, trigger_count, change_count, reload,
                   exit_graceful, child, orphans, killCalled, hupAfterPoll,
                   evSinceReset, usrAfterPoll, counterAtWait, cfg_source,
                   child_pid, pid_file, hupPending>>

\* what a metrics sample of the worker would give at a health check; the
\* health-check branch takes no sample, the condition is only recorded in
\* the history
MetricsConditions == {"mem_ok", "mem_over", "mem_unavailable"}

\* variant: the Nominal status is set in memory but not saved
HcNominal_NoSave ==
    /\ pc = "hc_nominal"
    /\ \E m \in MetricsConditions : Op(m)
    /\ state' = [state EXCEPT !.is_active = TRUE, !.data = "Nominal"]
    /\ pc' = "poll_reload"
    /\ UNCHANGED <<ret, exit_code, settings, trigger_count, change_count,
                   reload, exit_graceful, child, orphans, disk,
                   killCalled, hupAfterPoll, evSinceReset, usrAfterPoll,
                   counterAtWait, cfg_source, child_pid, pid_file,
                   hupPending>>

HcNominal ==
    /\ pc = "hc_nominal"
    /\ \E m \in MetricsConditions : Op(m)
    /\ state' = [state EXCEPT !.is_active = TRUE, !.data = "Nominal"]
    /\ disk' = state'
    /\ pc' = "poll_reload"
    /\ UNCHANGED <<ret, exit_code, settings, trigger_count, change_count,
                   reload, exit_graceful, child, orphans, killCalled,
                   hupAfterPoll, evSinceReset, usrAfterPoll, counterAtWait,
                   cfg_source, child_pid, pid_file, hupPending>>

\* ----------------------------------------------------------- loop: reload
PollReloadFalse ==
    /\ pc = "poll_reload"
    /\ ~reload
    /\ hupAfterPoll' = FALSE
    /\ pc' = "poll_exit"
    /\ UNCHANGED <<ret, exit_code, settings, trigger_count, change_count,
                   reload, exit_graceful, child, orphans, state, disk, ops,
                   killCalled, evSinceReset, usrAfterPoll, counterAtWait,
                   cfg_source, child_pid, pid_file, hupPending>>

PollReloadTrue ==
    /\ pc = "poll_reload"
    /\ reload
    /\ Op("reload")
    /\ pc' = "rl_config"
    /\ UNCHANGED <<ret, exit_code, settings, trigger_count, change_count,
                   reload, exit_graceful, child, orphans, state, disk,
                   killCalled, hupAfterPoll, evSinceReset, usrAfterPoll,
                   counterAtWait, cfg_source, child_pid, pid_file,
                   hupPending>>

\* config = get_config();
RlConfigOk ==
    /\ pc = "rl_config"
    /\ Op("get_config")
    /\ hupPending' = FALSE
    /\ pc' = "rl_state"
    /\ UNCHANGED <<ret, exit_code, settings, trigger_count, change_count,
                   reload, exit_graceful, child, orphans, state, disk,
                   killCalled, hupAfterPoll, evSinceReset, usrAfterPoll,
                   counterAtWait, cfg_source, child_pid, pid_file>>

RlConfigFail ==
    /\ pc = "rl_config"
    /\ Op("config_fail")
    /\ hupPending' = FALSE
    /\ Exit(ExitFatal)
    /\ UNCHANGED <<ret, settings, trigger_count, change_count, reload,
                   exit_graceful, child, orphans, state, disk, killCalled,
                   hupAfterPoll, evSinceReset, usrAfterPoll, counterAtWait,
                   cfg_source, child_pid, pid_file>>

RlStateOk ==
    /\ pc = "rl_state"
    /\ disk # NoState
    /\ state' = ReloadLoaded(disk)
    /\ disk' = state'
    /\ Op("load_state")
    /\ pc' = "rl_kill"
    /\ UNCHANGED <<ret, exit_code, settings, trigger_count, change_count,
                   reload, exit_graceful, child, orphans, killCalled,
                   hupAfterPoll, evSinceReset, usrAfterPoll, counterAtWait,
                   cfg_source, child_pid, pid_file, hupPending>>

RlStateErr ==
    /\ pc = "rl_state"
    /\ state' = FreshState
    /\ disk' = state'
    /\ Op("load_state")
    /\ pc' = "rl_kill"
    /\ UNCHANGED <<ret, exit_code, settings, trigger_count, change_count,
                   reload, exit_graceful, child, orphans, killCalled,
                   hupAfterPoll, evSinceReset, usrAfterPoll, counterAtWait,
                   cfg_source, child_pid, pid_file, hupPending>>

RlKillOk ==
    /\ pc = "rl_kill"
    /\ child' = "dead"
    /\ killCalled' = TRUE
    /\ Op("kill_ok")
    /\ pc' = "rl_build"
    /\ UNCHANGED <<ret, exit_code, settings, trigger_count, change_count,
                   reload, exit_graceful, orphans, state, disk, hupAfterPoll,
                   evSinceReset, usrAfterPoll, counterAtWait, cfg_source,
                   child_pid, pid_file, hupPending>>

\* variant: the failed kill is logged and the reload goes on to the build
RlKillFail_Continue ==
    /\ pc = "rl_kill"
    /\ killCalled' = TRUE
    /\ Op("kill_fail")
    /\ state' = log_error(state, "kill")
    /\ disk' = state'
    /\ pc' = "rl_build"
    /\ UNCHANGED <<ret, exit_code, settings, trigger_count, change_count,
                   reload, exit_graceful, child, orphans, hupAfterPoll,
                   evSinceReset, usrAfterPoll, counterAtWait, cfg_source,
                   child_pid, pid_file, hupPending>>

RlKillFail ==
    /\ pc = "rl_kill"
    /\ killCalled' = TRUE
    /\ Op("kill_fail")
    /\ state' = wind_down_state(log_error(state, "kill"))
    /\ disk' = state'
    /\ Exit(ExitFatal)
    /\ UNCHANGED <<ret, settings, trigger_count, change_count, reload,
                   exit_graceful, child, orphans, hupAfterPoll, evSinceReset,
                   usrAfterPoll, counterAtWait, cfg_source, child_pid,
                   pid_file, hupPending>>

RlBuildOk ==
    /\ pc = "rl_build"
    /\ Op("build_ok")
    /\ ret' = "reload"
    /\ pc' = "cc_spawn"
    /\ UNCHANGED <<exit_code, settings, trigger_count, change_count, reload,
                   exit_graceful, child, orphans, state, disk, killCalled,
                   hupAfterPoll, evSinceReset, usrAfterPoll, counterAtWait,
                   cfg_source, child_pid, pid_file, hupPending>>

RlBuildFail ==
    /\ pc = "rl_build"
    /\ Op("build_fail")
    /\ state' = log_error(state, "build")
    /\ disk' = state'
    /\ Exit(ExitOk)
    /\ UNCHANGED <<ret, settings, trigger_count, change_count, reload,
                   exit_graceful, child, orphans, killCalled, hupAfterPoll,
                   evSinceReset, usrAfterPoll, counterAtWait, cfg_source,
                   child_pid, pid_file, hupPending>>

\* variant: the flag is left set after the reload
RlClear_NoStore ==
    /\ pc = "rl_clear"
    /\ hupAfterPoll' = FALSE
    /\ Op("clear")
    /\ pc' = "poll_exit"
    /\ UNCHANGED <<ret, exit_code, settings, trigger_count, change_count,
                   reload, exit_graceful, child, orphans, state, disk,
                   killCalled, evSinceReset, usrAfterPoll, counterAtWait,
                   cfg_source, child_pid, pid_file, hupPending>>

\* reload.store(false, Ordering::Relaxed)
RlClear ==
    /\ pc = "rl_clear"
    /\ reload' = FALSE
    /\ hupAfterPoll' = FALSE
    /\ Op("clear")
    /\ pc' = "poll_exit"
    /\ UNCHANGED <<ret, exit_code, settings, trigger_count, change_count,
                   exit_graceful, child, orphans, state, disk, killCalled,
                   evSinceReset, usrAfterPoll, counterAtWait, cfg_source,
                   child_pid, pid_file, hupPending>>

\* --------------------------------------------------------- loop: shutdown
\* variant: the loop goes back to waiting without testing the flag
PollExitFalse_Ignore ==
    /\ pc = "poll_exit"
    /\ ops' = <<>>
    /\ usrAfterPoll' = FALSE
    /\ pc' = "select"
    /\ counterAtWait' = state.event_counter
    /\ UNCHANGED <<ret, exit_code, settings, trigger_count, change_count,
                   reload, exit_graceful, child, orphans, state, disk,
                   killCalled, hupAfterPoll, evSinceReset, cfg_source,
                   child_pid, pid_file, hupPending>>

PollExitFalse ==
    /\ pc = "poll_exit"
    /\ ~exit_graceful
    /\ ops' = <<>>
    /\ pc' = "select"
    /\ usrAfterPoll' = FALSE
    /\ counterAtWait' = state.event_counter
    /\ UNCHANGED <<ret, exit_code, settings, trigger_count, change_count,
                   reload, exit_graceful, child, orphans, state, disk,
                   killCalled, hupAfterPoll, evSinceReset, cfg_source,
                   child_pid, pid_file, hupPending>>

PollExitTrue ==
    /\ pc = "poll_exit"
    /\ exit_graceful
    /\ Op("shutdown")
    /\ pc' = "sd_kill"
    /\ usrAfterPoll' = FALSE
    /\ UNCHANGED <<ret, exit_code, settings, trigger_count, change_count,
                   reload, exit_graceful, child, orphans, state, disk,
                   killCalled, hupAfterPoll, evSinceReset, counterAtWait,
                   cfg_source, child_pid, pid_file, hupPending>>

SdKillOk ==
    /\ pc = "sd_kill"
    /\ child' = "dead"
    /\ killCalled' = TRUE
    /\ Op("kill_ok")
    /\ Exit(ExitOk)
    /\ UNCHANGED <<ret, settings, trigger_count, change_count, reload,
                   exit_graceful, orphans, state, disk, hupAfterPoll,
                   evSinceReset, usrAfterPoll, counterAtWait, cfg_source,
                   child_pid, pid_file, hupPending>>

\* variant: a failed kill at shutdown still exits with the success code
SdKillFail_ExitOk ==
    /\ pc = "sd_kill"
    /\ killCalled' = TRUE
    /\ Op("kill_fail")
    /\ state' = wind_down_state(log_error(state, "kill"))
    /\ disk' = state'
    /\ Exit(ExitOk)
    /\ UNCHANGED <<ret, settings, trigger_count, change_count, reload,
                   exit_graceful, child, orphans, hupAfterPoll, evSinceReset,
                   usrAfterPoll, counterAtWait, cfg_source, child_pid,
                   pid_file, hupPending>>

SdKillFail ==
    /\ pc = "sd_kill"
    /\ killCalled' = TRUE
    /\ Op("kill_fail")
    /\ state' = wind_down_state(log_error(state, "kill"))
    /\ disk' = state'
    /\ Exit(ExitFatal)
    /\ UNCHANGED <<ret, settings, trigger_count, change_count, reload,
                   exit_graceful, child, orphans, hupAfterPoll, evSinceReset,
                   usrAfterPoll, counterAtWait, cfg_source, child_pid,
                   pid_file, hupPending>>

\* ------------------------------------------------------------ environment
\* sighup_watch: the listener task stores true into the reload flag
Sighup ==
    /\ WatchersInstalled
    /\ ~(reload /\ hupAfterPoll /\ hupPending)
    /\ reload' = TRUE
    /\ hupAfterPoll' = TRUE
    /\ hupPending' = TRUE
    /\ UNCHANGED <<pc, ret, exit_code, settings, trigger_count, change_count,
                   exit_graceful, child, orphans, state, disk, ops,
                   killCalled, evSinceReset, usrAfterPoll, counterAtWait,
                   cfg_source, child_pid, pid_file>>

\* sigusr_watch: the listener task stores true into the shutdown flag
Sigusr ==
    /\ WatchersInstalled
    /\ ~exit_graceful
    /\ exit_graceful' = TRUE
    /\ usrAfterPoll' = TRUE
    /\ UNCHANGED <<pc, ret, exit_code, settings, trigger_count, change_count,
                   reload, child, orphans, state, disk, ops, killCalled,
                   hupAfterPoll, evSinceReset, counterAtWait, cfg_source,
                   child_pid, pid_file, hupPending>>

\* the operator edits the Config file while the loop waits, once in a
\* run: changes_needed gets another value
EditConfig ==
    /\ pc = "select"
    /\ cfg_source = settings.changes_needed
    /\ cfg_source' = IF cfg_source = MaxThreshold THEN 1 ELSE cfg_source + 1
    /\ UNCHANGED <<pc, ret, exit_code, settings, trigger_count, change_count,
                   reload, exit_graceful, child, orphans, state, disk, ops,
                   killCalled, hupAfterPoll, evSinceReset, usrAfterPoll,
                   counterAtWait, child_pid, pid_file, hupPending>>

\* the worker process exits on its own
WorkerDies ==
    /\ Running
    /\ child = "alive"
    /\ child' = "dead"
    /\ UNCHANGED <<pc, ret, exit_code, settings, trigger_count, change_count,
                   reload, exit_graceful, orphans, state, disk, ops,
                   killCalled, hupAfterPoll, evSinceReset, usrAfterPoll,
                   counterAtWait, cfg_source, child_pid, pid_file,
                   hupPending>>

\* ------------------------------------------------------------------ Next
Startup ==
    \/ GetConfigOk \/ GetConfigFail
    \/ SpecificConfigOk \/ SpecificConfigFail
    \/ LoadStateOk \/ LoadStateErr
    \/ SetActive
    \/ LogPathOk \/ LogPathMissing
    \/ StartupBuildOk \/ StartupBuildFail
    \/ StartupRunning \/ StartupNotRunning
    \/ MonitorOk \/ MonitorPathMissing \/ MonitorErr

CreateChild ==
    \/ CreateChildSpawnOk \/ CreateChildSpawnFail
    \/ CreateChildPidOk \/ CreateChildPidFail
    \/ CreateChildWriteOk \/ CreateChildWriteFail
    \/ CreateChildReturn

ChangePath ==
    \/ SelectEvent \/ EvThreshold \/ EvBelow
    \/ EvKillOk \/ EvKillFail \/ EvReset

HealthPath ==
    \/ HealthRunning \/ HealthNotRunning
    \/ HcBuildOk \/ HcBuildFail \/ HcNominal

ReloadPath ==
    \/ PollReloadFalse \/ PollReloadTrue
    \/ RlConfigOk \/ RlConfigFail
    \/ RlStateOk \/ RlStateErr
    \/ RlKillOk \/ RlKillFail
    \/ RlBuildOk \/ RlBuildFail
    \/ RlClear

ShutdownPath ==
    \/ PollExitFalse \/ PollExitTrue
    \/ SdKillOk \/ SdKillFail

Supervisor ==
    Startup \/ CreateChild \/ ChangePath \/ HealthPath \/ ReloadPath
    \/ ShutdownPath

Environment == Sighup \/ Sigusr \/ WorkerDies \/ EditConfig

Next == Supervisor \/ Environment

Spec == Init /\ [][Next]_vars

\* the loop task is always scheduled again: every await of main() returns
\* and the wait of select! ends with an event or with the 3 s timeout
FairSpec == Spec /\ WF_vars(Supervisor)

TypeOK ==
    /\ exit_code \in {NoExit, ExitOk, ExitFatal}
    /\ ret \in {"startup", "change", "health", "reload"}
    /\ child \in {"none", "alive", "dead"}
    /\ reload \in BOOLEAN /\ exit_graceful \in BOOLEAN
    /\ Len(state.error_log) <= ErrorLogCap

\* ============================================================== claims
Contains(s, x) == \E i \in 1..Len(s) : s[i] = x

Pos(s, x) == CHOOSE i \in 1..Len(s) : s[i] = x /\ \A j \in 1..(i - 1) : s[j] # x

\* the operations recorded after the first occurrence of marker m
After(m) == IF Contains(ops, m) THEN SubSeq(ops, Pos(ops, m) + 1, Len(ops))
            ELSE <<>>

LastOp == IF ops = <<>> THEN "none" ELSE ops[Len(ops)]

SpawnAttempted == Contains(ops, "spawn_ok") \/ Contains(ops, "spawn_fail")

\* C1: every spawn of a worker after the first one is preceded by a kill
\* call on the handle that was current, on all restart paths.
C1_KillBeforeEverySpawn ==
    [][(pc = "cc_spawn" /\ pc' = "cc_pid" /\ ret # "startup") => killCalled]_vars

\* C2: in every reachable state at most one worker started by the
\* supervisor is alive.
C2_AtMostOneAlive == NumAlive <= 1

\* a worker respawned on the change path is the only one alive
C2_Witness == pc = "cc_pid" /\ ret = "change" /\ NumAlive = 1

\* C3 as stated: for every configured threshold the counter is never
\* greater than the threshold.
C3_Original == change_count <= trigger_count

\* C3 amended: for a threshold >= 1 the counter stays in 0..threshold and
\* is back below the threshold (reset to 0) before the handling of the
\* event that reached the threshold is over.
C3_CounterBounded ==
    settings.changes_needed >= 1 =>
        /\ change_count >= 0
        /\ change_count <= trigger_count
        /\ pc \in {"select", "poll_reload", "poll_exit", "sd_kill",
                   "hc_build", "hc_nominal", "rl_config", "rl_state",
                   "rl_kill", "rl_build", "rl_clear"}
              => change_count < trigger_count
        /\ (pc = "poll_reload" /\ Contains(ops, "threshold"))
              => change_count = 0

\* the threshold 2 was reached and the counter reset in that handling step
C3_Witness ==
    /\ pc = "poll_reload"
    /\ trigger_count = 2
    /\ Contains(ops, "threshold")
    /\ change_count = 0

\* C4: with threshold N >= 1 a change-triggered restart starts on exactly
\* every N-th event counted since the last reset; the counter equals the
\* number of events since the last reset, whatever health checks and
\* reloads happen in between.
C4_EveryNthEvent ==
    settings.changes_needed >= 1 =>
        /\ change_count = evSinceReset
        /\ pc = "ev_kill" => evSinceReset = trigger_count
        /\ (pc = "poll_reload" /\ ops = <<"event">>)
              => (evSinceReset >= 1 /\ evSinceReset < trigger_count)
        /\ pc = "select" => evSinceReset < trigger_count

\* the first event after a threshold-triggered reset counts as 1
C4_Witness ==
    /\ pc = "ev_check"
    /\ trigger_count = 2
    /\ state.event_counter >= 1
    /\ change_count = 1

KillFailedOnChangePath ==
    /\ Contains(ops, "kill_fail")
    /\ ~Contains(ops, "reload")
    /\ ~Contains(ops, "shutdown")

C6_ShutdownOneKill ==
    Contains(ops, "shutdown") =>
        \/ pc = "sd_kill" /\ After("shutdown") = <<>> /\ exit_code = NoExit
        \/ pc = "exited" /\ After("shutdown") = <<"kill_ok">>
                         /\ exit_code = ExitOk
        \/ pc = "exited" /\ After("shutdown") = <<"kill_fail">>
                         /\ exit_code = ExitFatal

C6_Witness ==
    /\ pc = "exited"
    /\ After("shutdown") = <<"kill_fail">>
    /\ exit_code = ExitFatal

ReloadSteps ==
    <<"get_config", "load_state", "kill_ok", "build_ok", "spawn_ok", "clear">>

FailureOps ==
    {"config_fail", "kill_fail", "build_fail", "spawn_fail", "pid_fail",
     "pidfile_fail"}

\* C7: a reload observed at the poll is handled within that iteration as
\* config reload, state reload, one kill, the build, one spawn, and only
\* then the flag is cleared (a failing step ends the process instead);
\* when the loop waits again the flag is set only if a new SIGHUP arrived
\* after the clear.
C7_ReloadCycle ==
    /\ Contains(ops, "reload") =>
          /\ ops[1] \in {"event", "timer"}
          /\ \A i \in 1..Len(After("reload")) :
                i <= Len(ReloadSteps) =>
                   \/ After("reload")[i] = ReloadSteps[i]
                   \/ /\ i = Len(After("reload"))
                      /\ pc = "exited"
                      /\ After("reload")[i] \in FailureOps
          /\ ~Contains(ops, "clear") => reload
    /\ Contains(ops, "clear") => Contains(ops, "reload")
    /\ (pc \in {"select", "poll_exit"} /\ reload) => hupAfterPoll

C7_Witness ==
    /\ pc = "poll_exit"
    /\ LastOp = "clear"
    /\ ~reload

\* C8: the process ends with exit code 0 only on the graceful shutdown
\* path after a successful kill.
C8_OnlyShutdownExitsZero ==
    (pc = "exited" /\ exit_code = ExitOk) =>
        After("shutdown") = <<"kill_ok">>

\* C9: after a failure of the one-shot build no build, spawn or kill is
\* performed and the supervisor has terminated.
C9_BuildFailureFinal ==
    Contains(ops, "build_fail") => (pc = "exited" /\ LastOp = "build_fail")

\* the build failed in the health-check restart
C9_Witness ==
    /\ pc = "exited"
    /\ ops = <<"timer", "build_fail">>

KillFailedIn(m) == Contains(After(m), "kill_fail")

\* C10: a kill failure during reload or shutdown is logged into the
\* state, the state is saved as inactive, the process exits with 100 and
\* no build or spawn follows the failed kill.
C10_KillFailureFatal ==
    (KillFailedIn("reload") \/ KillFailedIn("shutdown")) =>
        /\ pc = "exited"
        /\ exit_code = ExitFatal
        /\ LastOp = "kill_fail"
        /\ Contains(state.error_log, "kill")
        /\ ~state.is_active
        /\ disk = state

C10_Witness ==
    /\ pc = "exited"
    /\ KillFailedIn("reload")
    /\ exit_code = ExitFatal

\* the worker is dead while the loop waits
DeadWhileWaiting == pc = "select" /\ child = "dead"

\* after a build the worker has been spawned by the health check or the
\* reload
RebuiltAndRespawned == pc = "cc_pid" /\ ret \in {"health", "reload"}

\* C11: whenever the worker stops running while the loop is active, the
\* worker is eventually rebuilt and respawned (unless the supervisor is
\* shut down), whatever change events arrive in the meantime.
C11_DeadWorkerRebuilt ==
    DeadWhileWaiting ~> (RebuiltAndRespawned \/ pc = "exited")

\* C12: a flag found set when the loop starts waiting was set after the
\* latest poll of that flag, so at most one event is handled before its
\* handling starts; a set shutdown flag leads to termination.
C12_SignalLatency ==
    /\ [](pc = "select" => /\ reload => hupAfterPoll
                           /\ exit_graceful => usrAfterPoll)
    /\ exit_graceful ~> pc = "exited"

\* shutdown handling starts right after the one event that was handled
C12_Witness ==
    /\ pc = "sd_kill"
    /\ ops = <<"event", "shutdown">>

\* a change-triggered restart was completed in this iteration
ChangeRestartCompleted ==
    /\ Contains(ops, "threshold")
    /\ Contains(ops, "kill_ok")
    /\ Contains(ops, "spawn_ok")

\* C13: when the handling of a change event is over, the event counter is
\* 1 more than at the last wait if a change-triggered restart (kill then
\* spawn) was completed, and unchanged otherwise.
C13_CountsCompletedRestarts ==
    (pc = "poll_reload" /\ ops[1] = "event") =>
        state.event_counter =
            counterAtWait + (IF ChangeRestartCompleted THEN 1 ELSE 0)

\* C15: the state is inactive and "Initializing" after the startup load,
\* and is-active stays false in memory and in the state file until a
\* worker has been spawned.
C15_InactiveUntilFirstSpawn ==
    /\ pc = "set_active" =>
          /\ ~state.is_active
          /\ state.data = "Initializing"
          /\ disk = state
    /\ (child = "none" /\ pc \in {"log_path", "startup_build", "cc_spawn"}) =>
          /\ ~state.is_active
          /\ ~disk.is_active

\* C17: every spawn of a worker directly follows a successful one-shot
\* build, run after the previous worker was killed or found dead.
C17_BuildBeforeEverySpawn ==
    [][(pc = "cc_spawn" /\ pc' = "cc_pid") => LastOp = "build_ok"]_vars

\* C18: whenever the loop suspends to wait for the next event the state
\* file holds the in-memory state.
C18_SavedAtWait == pc = "select" => disk = state

\* a wait after a counted restart whose kill failure was logged
C18_Witness ==
    /\ pc = "select"
    /\ state.event_counter >= 1
    /\ Contains(state.error_log, "kill")
    /\ state.data = "Nominal"

\* C19: within one run the event counter of the state never decreases.
C19_CounterNeverDecreases ==
    [][state'.event_counter >= state.event_counter]_vars

\* C14: after a reload the threshold the loop compares against is the one
\* the Config file gave during that reload.
C14_ReloadUsesFreshSettings ==
    (pc = "poll_exit" /\ LastOp = "clear") =>
        /\ settings.changes_needed = cfg_source
        /\ trigger_count = cfg_source

\* C16: after every health check, a memory usage at or above the maximum
\* has put a resource-over-limit entry in the error log and a failed
\* sample a data-unavailable entry.
C16_MetricsRecorded ==
    (pc = "poll_reload" /\ ops[1] = "timer") =>
        /\ Contains(ops, "mem_over") =>
              Contains(state.error_log, "over_limit")
        /\ Contains(ops, "mem_unavailable") =>
              Contains(state.error_log, "data_unavailable")

\* C20: whenever the loop suspends to wait, the pid file holds the
\* decimal process id of the current child handle; a failure to get the
\* pid or to write the file ends the process with the runtime-fatal code.
C20_PidFileCurrent ==
    /\ pc = "select" => pid_file = to_string(child_pid)
    /\ LastOp \in {"pid_fail", "pidfile_fail"} =>
          (pc = "exited" /\ exit_code = ExitFatal)

\* waiting after a change-triggered respawn whose worker got pid 10
C20_Witness ==
    /\ pc = "select"
    /\ state.event_counter >= 1
    /\ child = "alive"
    /\ child_pid = 10
    /\ pid_file = <<1, 0>>

\* C21: no reload request is lost: once the SIGHUP listener has set the
\* flag, a reload that reads the configuration after that moment takes
\* place (or the process has exited), also when the signal arrives while
\* an earlier reload is between its configuration read and its clear.
C21_NoReloadLost == hupPending ~> (~hupPending \/ pc = "exited")

\* C22: whenever the supervisor has terminated, no worker it spawned is
\* alive, neither the one behind the current handle nor an earlier one.
C22_NoWorkerLeftAtExit == pc = "exited" => NumAlive = 0

====
